---- MODULE Spec2Model ----
\* Verification model of the semantic index of obsidian-systematics:
\* VectorIndex (IndexedDB store + hybrid ranker), EmbeddingService.cosineSimilarity
\* and the indexing handlers of SemanticMonadView.
EXTENDS Integers, Sequences, FiniteSets, TLC

\* ---------------------------------------------------------------------------
\* Strings.  A string is a sequence of one-character strings; Chars lists the
\* characters the model uses in ascending UTF-16 code-unit order, so the index
\* of a character orders it the way JavaScript and IndexedDB order it.
\* An operator that uses its string argument more than once first binds the
\* argument's value (t \in {s}), as a call evaluates its arguments once.
\* ---------------------------------------------------------------------------
Chars ==
    << "\n", " ", ",", "-", ".", "/",
       "A", "B", "C", "D", "E", "F", "G", "H", "I", "J", "K", "L", "M",
       "N", "O", "P", "Q", "R", "S", "T", "U", "V", "W", "X", "Y", "Z",
       "_",
       "a", "b", "c", "d", "e", "f", "g", "h", "i", "j", "k", "l", "m",
       "n", "o", "p", "q", "r", "s", "t", "u", "v", "w", "x", "y", "z" >>

CharCode(c) == CHOOSE i \in 1..Len(Chars) : Chars[i] = c

\* String.prototype.toLowerCase, one character
ToLowerChar(c) ==
    LET i == CharCode(c) IN IF i >= 7 /\ i <= 32 THEN Chars[i + 27] ELSE c

\* String.prototype.toLowerCase
ToLowerCase(s) == CHOOSE r \in {[i \in 1..Len(t) |-> ToLowerChar(t[i])] : t \in {s}} : TRUE

\* the characters matched by \s (of the model's alphabet)
WhiteSpace == {" ", "\n"}

\* the characters matched by [\s-_]: white space, hyphen, underscore
WordSeparators == WhiteSpace \cup {"-", "_"}

\* String.prototype.split(separator) for a one-character separator class:
\* every separator ends a piece, empty pieces are kept
Split(s, seps) ==
    CHOOSE r \in
        { LET cuts == {i \in 1..Len(t) : t[i] \in seps}
              n == Cardinality(cuts)
              Cut(k) == IF k = 0 THEN 0
                        ELSE IF k = n + 1 THEN Len(t) + 1
                        ELSE CHOOSE i \in cuts : Cardinality({j \in cuts : j < i}) = k - 1
          IN  [k \in 1..(n + 1) |-> SubSeq(t, Cut(k - 1) + 1, Cut(k) - 1)]
          : t \in {s} } : TRUE

\* a run of separators is one match of the regular expression /[...]+/
RECURSIVE CollapseRuns(_, _)
CollapseRuns(s, seps) ==
    CHOOSE r \in
        { IF Len(t) < 2 THEN t
          ELSE IF Head(t) \in seps /\ Head(Tail(t)) \in seps
               THEN CollapseRuns(Tail(t), seps)
               ELSE << Head(t) >> \o CollapseRuns(Tail(t), seps)
          : t \in {s} } : TRUE

\* String.prototype.split(/[...]+/)
SplitRuns(s, seps) == Split(CollapseRuns(s, seps), seps)

\* String.prototype.includes
Includes(hay, needle) ==
    \E i \in 1..(Len(hay) - Len(needle) + 1) :
        SubSeq(hay, i, i + Len(needle) - 1) = needle

\* String.prototype.startsWith
StartsWith(s, prefix) ==
    Len(prefix) <= Len(s) /\ SubSeq(s, 1, Len(prefix)) = prefix

\* Array.prototype.filter
RECURSIVE SelectWords(_, _)
SelectWords(ws, minLen) ==
    CHOOSE r \in
        { IF t = << >> THEN << >>
          ELSE IF Len(Head(t)) > minLen
               THEN << Head(t) >> \o SelectWords(Tail(t), minLen)
               ELSE SelectWords(Tail(t), minLen)
          : t \in {ws} } : TRUE

\* String.prototype.trim
Trim(s) ==
    CHOOSE r \in
        { LET inner == {i \in 1..Len(t) : t[i] \notin WhiteSpace}
          IN  IF inner = {} THEN << >>
              ELSE SubSeq(t, CHOOSE i \in inner : \A j \in inner : i <= j,
                             CHOOSE i \in inner : \A j \in inner : i >= j)
          : t \in {s} } : TRUE

\* Array.prototype.join
RECURSIVE Join(_, _)
Join(words, sep) ==
    CHOOSE r \in
        { IF t = << >> THEN << >>
          ELSE IF Len(t) = 1 THEN t[1]
          ELSE t[1] \o sep \o Join(Tail(t), sep)
          : t \in {words} } : TRUE

\* the elements of an array
Range(seq) == UNION {{t[i] : i \in 1..Len(t)} : t \in {seq}}

\* the elements of new Set(array) in iteration order: first occurrences
RECURSIVE SetOrder(_, _)
SetOrder(seq, seen) ==
    CHOOSE r \in
        { IF t = << >> THEN << >>
          ELSE IF Head(t) \in seen THEN SetOrder(Tail(t), seen)
          ELSE << Head(t) >> \o SetOrder(Tail(t), seen \cup {Head(t)})
          : t \in {seq} } : TRUE

\* comparison of two strings by code units (IndexedDB key order)
RECURSIVE StrLess(_, _)
StrLess(a, b) ==
    IF b = << >> THEN FALSE
    ELSE IF a = << >> THEN TRUE
    ELSE IF Head(a) = Head(b) THEN StrLess(Tail(a), Tail(b))
    ELSE CharCode(Head(a)) < CharCode(Head(b))

\* ---------------------------------------------------------------------------
\* Numbers.  Scores are JavaScript doubles in the source; the model keeps them
\* in hundredths (Scale), the unit in which the boost constants are integers.
\* ---------------------------------------------------------------------------
Scale == 100
PathBoost == 12
TitleBoost == 8
MultiBoost == 15

Min(a, b) == IF a < b THEN a ELSE b
Max(a, b) == IF a > b THEN a ELSE b

RECURSIVE SumTo(_, _)
SumTo(f, n) == IF n = 0 THEN 0 ELSE f[n] + SumTo(f, n - 1)

SetMax(S) == CHOOSE m \in {CHOOSE x \in T : \A y \in T : y <= x : T \in {S}} : TRUE

Dot(a, b) == SumTo([i \in 1..Len(a) |-> a[i] * b[i]], Len(a))

\* faulty variant of cosineSimilarity: no dimension check, the vectors are
\* compared on their common prefix
CosNoCheck(a, b) ==
    LET n == Min(Len(a), Len(b))
        aa == SubSeq(a, 1, n)
        bb == SubSeq(b, 1, n)
        d == Dot(aa, bb)
        na == Dot(aa, aa)
        nb == Dot(bb, bb)
    IN  IF na = 0 \/ nb = 0 THEN [threw |-> FALSE, value |-> 0]
        ELSE [threw |-> FALSE,
              value |-> (IF d < 0 THEN -1 ELSE 1) *
                        SetMax({c \in 0..Scale : c * c * na * nb <= Scale * Scale * d * d})]

\* EmbeddingService.cosineSimilarity: throws on vectors of different length,
\* 0 for a zero norm, else dot / (|a| |b|), here in hundredths truncated
\* towards zero: the largest c with (c/Scale)^2 * na * nb <= dot^2
CosineSimilarity(a, b) ==
    IF Len(a) # Len(b) THEN [threw |-> TRUE, value |-> 0]
    ELSE CHOOSE r \in
             { LET d == t[1]
                   na == t[2]
                   nb == t[3]
               IN  IF na = 0 \/ nb = 0 THEN [threw |-> FALSE, value |-> 0]
                   ELSE [threw |-> FALSE,
                         value |-> (IF d < 0 THEN -1 ELSE 1) *
                                   SetMax({c \in 0..Scale :
                                              c * c * na * nb <= Scale * Scale * d * d})]
               : t \in {<< Dot(a, b), Dot(a, a), Dot(b, b) >>} } : TRUE

\* ---------------------------------------------------------------------------
\* VectorIndex.findNearest: hybrid score of one record, stable sort, slice
\* ---------------------------------------------------------------------------

\* folderWord === word || folderWord.includes(word) ||
\* (folderWord.length >= 3 && word.startsWith(folderWord))
FolderWordMatches(folderWord, word) ==
    \/ folderWord = word
    \/ Includes(folderWord, word)
    \/ (Len(folderWord) >= 3 /\ StartsWith(word, folderWord))

\* the inner loop over folderWords adds the boost once and breaks
PartMatches(part, word) ==
    \E folderWords \in {SplitRuns(part, WordSeparators)} :
        \E i \in 1..Len(folderWords) : FolderWordMatches(folderWords[i], word)

\* faulty variant of WordBoost: the title boost is added whatever the title
WordBoostAnyTitle(word, pathLower, titleLower) ==
    IF Len(word) > 3
    THEN PathBoost * Cardinality(UNION {{i \in 1..Len(pathParts) : PartMatches(pathParts[i], word)}
                                        : pathParts \in {Split(pathLower, {"/"})}})
         + TitleBoost
    ELSE 0

\* the body of "for (const word of queryWords)"
WordBoost(word, pathLower, titleLower) ==
    IF Len(word) > 3
    THEN PathBoost * Cardinality(UNION {{i \in 1..Len(pathParts) : PartMatches(pathParts[i], word)}
                                        : pathParts \in {Split(pathLower, {"/"})}})
         + (IF Includes(titleLower, word) THEN TitleBoost ELSE 0)
    ELSE 0

\* the largest number of query words (counted with repetition, as filter does)
\* longer than 3 characters that one path part includes
FolderMatchCount(queryWords, pathLower) ==
    SetMax({0} \cup UNION
           { { Cardinality({j \in 1..Len(queryWords) :
                              Len(queryWords[j]) > 3 /\ Includes(pathParts[i], queryWords[j])})
               : i \in 1..Len(pathParts) }
             : pathParts \in {Split(pathLower, {"/"})} })

\* the boost of one record; an absent or empty queryText is falsy
Boost(record, queryText) ==
    IF queryText = << >> THEN 0
    ELSE CHOOSE boost \in
             { LET pathLower == t[1]
                   titleLower == t[2]
                   queryWords == t[3]
               IN  SumTo([i \in 1..Len(queryWords) |->
                             WordBoost(queryWords[i], pathLower, titleLower)],
                         Len(queryWords))
                   + (IF FolderMatchCount(queryWords, pathLower) >= 2 THEN MultiBoost ELSE 0)
               : t \in {<< ToLowerCase(record.id), ToLowerCase(record.metadata.title),
                           SelectWords(SplitRuns(ToLowerCase(queryText), WhiteSpace), 2) >>} } :
             TRUE

\* faulty variant of FinalScore: the score without any clamp
FinalScoreUnclamped(semanticScore, boost) == semanticScore + boost

\* Math.min(1.0, semanticScore + boost)
FinalScore(semanticScore, boost) == Min(Scale, semanticScore + boost)

\* the ScoredNote of one record (the cosine is known not to throw)
ScoreRecord(record, queryEmbedding, queryText) ==
    [path |-> record.id,
     score |-> FinalScore(CosineSimilarity(queryEmbedding, record.embedding).value,
                          Boost(record, queryText)),
     embedding |-> record.embedding,
     metadata |-> record.metadata]

\* faulty variant of InsertSorted: an equal score goes in front
RECURSIVE InsertSortedUnstable(_, _)
InsertSortedUnstable(sorted, x) ==
    IF sorted = << >> THEN << x >>
    ELSE IF Head(sorted).score > x.score
         THEN << Head(sorted) >> \o InsertSortedUnstable(Tail(sorted), x)
         ELSE << x >> \o sorted

\* one insertion of the stable sort by (a, b) => b.score - a.score: x goes
\* behind every element whose score is at least its own
RECURSIVE InsertSorted(_, _)
InsertSorted(sorted, x) ==
    IF sorted = << >> THEN << x >>
    ELSE IF Head(sorted).score >= x.score
         THEN << Head(sorted) >> \o InsertSorted(Tail(sorted), x)
         ELSE << x >> \o sorted

\* Array.prototype.sort with comparator b.score - a.score (stable since ES2019)
RECURSIVE SortByScore(_)
SortByScore(scored) ==
    IF scored = << >> THEN << >>
    ELSE InsertSorted(SortByScore(SubSeq(scored, 1, Len(scored) - 1)), scored[Len(scored)])

\* Array.prototype.slice(0, k); a negative k counts from the end
Slice0(seq, k) ==
    LET end == IF k < 0 THEN Max(Len(seq) + k, 0) ELSE Min(k, Len(seq))
    IN  SubSeq(seq, 1, end)

\* IDBObjectStore.getAll(): the values in ascending order of their keys
RECURSIVE KeysAscending(_)
KeysAscending(keys) ==
    IF keys = {} THEN << >>
    ELSE LET least == CHOOSE x \in keys : \A y \in keys \ {x} : StrLess(x, y)
         IN  << least >> \o KeysAscending(keys \ {least})

AllRecords(st) ==
    LET keys == KeysAscending(DOMAIN st) IN [i \in 1..Len(keys) |-> st[keys[i]]]

\* findNearest on an open database: map, sort, slice; the first cosine that
\* throws rejects the whole call
FindNearestValue(st, queryEmbedding, k, queryText) ==
    CHOOSE r \in
        { IF \E i \in 1..Len(records) :
                 CosineSimilarity(queryEmbedding, records[i].embedding).threw
          THEN [threw |-> TRUE, value |-> << >>]
          ELSE [threw |-> FALSE,
                value |-> CHOOSE v \in
                    { Slice0(SortByScore(scored), k) :
                        scored \in {[i \in 1..Len(records) |->
                                       ScoreRecord(records[i], queryEmbedding, queryText)]} } :
                    TRUE]
          : records \in {AllRecords(st)} } : TRUE

\* ---------------------------------------------------------------------------
\* State
\* ---------------------------------------------------------------------------
VARIABLES
    store,      \* the object store 'embeddings': id -> EmbeddingRecord
    db,         \* VectorIndex.db is not null
    now,        \* the clock read by Date.now()
    ret,        \* the outcome of the latest call of a VectorIndex method
    files,      \* the vault: path -> TFile (content, stat.mtime, still existing)
    isHealthy,  \* EmbeddingService.isHealthy
    note,       \* the activations of indexNote: 0 is indexVault's, the others the modify handlers'
    run,        \* the locals of indexVault
    isIndexing, \* SemanticMonadView.isIndexing
    view,       \* the view: "new", "open" (listeners registered) or "closed"
    pending,    \* the deleted paths whose delete notification is not yet delivered
    handled,    \* the paths whose delete notification has been handled
    fresh,      \* the paths whose latest indexNote succeeded with the document unchanged since it began
    dims,       \* the length of the vectors the embedding server's model returns
    llmService, \* SemanticMonadView.llmService: "none" (null) or the provider it routes to
    search,     \* the locals of handleSemanticSearch
    currentMonad, \* SemanticMonadView.currentMonad: << >> (null) or << the monad >>
    server,     \* whether the embedding server answers the requests it gets
    earlier,    \* the other activation of handleSemanticSearch, if two are in flight
    layout      \* the position2D of the concepts of currentMonad and conceptVelocities

life == << files, isHealthy, note, run, isIndexing, view, pending, handled, fresh >>
srch == << dims, llmService, search, currentMonad, server, earlier, layout >>
vars == << store, db, now, ret, files, isHealthy, note, run, isIndexing, view, pending,
           handled, fresh, dims, llmService, search, currentMonad, server,
           earlier, layout >>

NoCall == [op |-> "none", threw |-> FALSE]

\* the path, title and vector samples of the ranking runs
PathWest == << "w", "e", "s", "t", "/", "w", "e", "s", "t", ".", "m", "d" >>
PathSci == << "S", "c", "i", "/", "b", ".", "m", "d" >>
PathA == << "a", ".", "m", "d" >>
RankPaths == {PathWest, PathSci, PathA}

\* TFile.basename: the file name without folder and extension
Basename(path) ==
    LET parts == Split(path, {"/"})
        name == parts[Len(parts)]
        pieces == Split(name, {"."})
    IN  IF Len(pieces) = 1 THEN name
        ELSE SubSeq(name, 1, Len(name) - Len(pieces[Len(pieces)]) - 1)

RankVectors == { << 1, 0 >>, << 0, 1 >>, << -1, 0 >>, << 1, 1 >>, << 0, 0 >>, << 1 >> }

QueryWest3 == << "w", "e", "s", "t", " ", "w", "e", "s", "t", " ", "W", "E", "S", "T" >>
QueryScience == << "s", "c", "i", "e", "n", "c", "e", " ", " ", "w", "e", "s", "t" >>
RankQueries == { << >>, QueryWest3, QueryScience }

MaxK == 3

RankRecord(path, vec) ==
    [id |-> path, embedding |-> vec, text |-> [ver |-> 0, len |-> 60],
     metadata |-> [title |-> Basename(path), path |-> path, mtime |-> 0, tags |-> << >>],
     timestamp |-> 0]

\* ---------------------------------------------------------------------------
\* VectorIndex.findNearest as an operation
\* ---------------------------------------------------------------------------
FindNearest(queryEmbedding, k, queryText) ==
    /\ ret' = IF ~db
              THEN [op |-> "findNearest", threw |-> TRUE, value |-> << >>,
                    query |-> queryEmbedding, k |-> k, text |-> queryText]
              ELSE LET r == FindNearestValue(store, queryEmbedding, k, queryText)
                   IN  [op |-> "findNearest", threw |-> r.threw, value |-> r.value,
                        query |-> queryEmbedding, k |-> k, text |-> queryText]
    /\ UNCHANGED << store, db, now >>

\* an indexNote activation that is not running
Idle == [pc |-> "idle"]

\* indexVault before its first call
NoRun ==
    [pc |-> "idle", outcome |-> "none", files |-> << >>, i |-> 0, indexed |-> 0,
     failed |-> 0, history |-> << >>, attempts |-> << >>, written |-> << >>]

NumHandlers == 1
Procs == 0..NumHandlers

\* the length of the vectors of the server's model at start (384 in the
\* source, scaled down), and the lengths a server may be restarted with
ModelDims == 2
ModelSizes == {2, 3}

\* handleSemanticSearch before its first call
NoSearch ==
    [pc |-> "idle", outcome |-> "none", query |-> << >>, queryEmbedding |-> << >>,
     notes |-> << >>, queryWords |-> {}, llmConcepts |-> << >>, filtered |-> << >>,
     ranked |-> << >>, top |-> << >>, concepts |-> << >>, llm |-> "none",
     prompt |-> << >>,
     found |-> [threw |-> FALSE, value |-> << >>]]

\* no second activation of handleSemanticSearch; first tells whether the
\* activation kept here was issued before the one in search
NoEarlier == [act |-> NoSearch, first |-> TRUE]

\* the positions are followed in the layout runs only
NoLayout == [tick |-> 0]

\* no search was made: the server's first model, no provider, no monad
Unsearched ==
    /\ dims = ModelDims
    /\ llmService = "none"
    /\ search = NoSearch
    /\ currentMonad = << >>
    /\ server = TRUE
    /\ earlier = NoEarlier
    /\ layout = NoLayout

\* the runs of VectorIndex alone: no vault, no view
NoView ==
    /\ files = << >>
    /\ isHealthy = FALSE
    /\ note = [p \in Procs |-> Idle]
    /\ run = NoRun
    /\ isIndexing = FALSE
    /\ view = "new"
    /\ pending = {}
    /\ handled = {}
    /\ fresh = {}
    /\ Unsearched

\* ---------------------------------------------------------------------------
\* The other methods of VectorIndex
\* ---------------------------------------------------------------------------

\* initialize: indexedDB.open succeeds (onsuccess sets this.db) or fails
\* (onerror rejects and this.db stays as it was)
Initialize(ok) ==
    /\ db' = IF ok THEN TRUE ELSE db
    /\ UNCHANGED << store, now, ret >>

\* close: this.db.close(); this.db = null
Close ==
    /\ db' = FALSE
    /\ UNCHANGED << store, now, ret >>

\* the record addNote builds
NewRecord(path, embedding, text, metadata, time) ==
    [id |-> path, embedding |-> embedding, text |-> text,
     metadata |-> metadata, timestamp |-> time]

\* store.put(record): insert or overwrite under the key record.id
Put(st, record) ==
    [id \in DOMAIN st \cup {record.id} |-> IF id = record.id THEN record ELSE st[id]]

\* store.delete(key); an absent key is not an error
Delete(st, path) == [id \in DOMAIN st \ {path} |-> st[id]]

\* faulty variant of AddNote: no check of this.db
AddNoteUnchecked(path, embedding, text, metadata) ==
    /\ store' = Put(store, NewRecord(path, embedding, text, metadata, now))
    /\ ret' = [op |-> "addNote", threw |-> FALSE, path |-> path]
    /\ UNCHANGED << db, now >>

AddNote(path, embedding, text, metadata) ==
    /\ IF ~db
       THEN /\ ret' = [op |-> "addNote", threw |-> TRUE, path |-> path]
            /\ UNCHANGED store
       ELSE /\ store' = Put(store, NewRecord(path, embedding, text, metadata, now))
            /\ ret' = [op |-> "addNote", threw |-> FALSE, path |-> path]
    /\ UNCHANGED << db, now >>

\* updateNote: getNote, then put the record with the new embedding and time
UpdateNote(path, embedding) ==
    /\ IF ~db \/ path \notin DOMAIN store
       THEN /\ ret' = [op |-> "updateNote", threw |-> TRUE, path |-> path]
            /\ UNCHANGED store
       ELSE /\ store' = Put(store, [store[path] EXCEPT !.embedding = embedding,
                                                        !.timestamp = now])
            /\ ret' = [op |-> "updateNote", threw |-> FALSE, path |-> path]
    /\ UNCHANGED << db, now >>

DeleteNote(path) ==
    /\ IF ~db
       THEN /\ ret' = [op |-> "deleteNote", threw |-> TRUE, path |-> path]
            /\ UNCHANGED store
       ELSE /\ store' = Delete(store, path)
            /\ ret' = [op |-> "deleteNote", threw |-> FALSE, path |-> path]
    /\ UNCHANGED << db, now >>

\* getNote: request.result || null; the model writes null as << >>
GetNoteValue(st, path) == IF path \in DOMAIN st THEN << st[path] >> ELSE << >>

GetNote(path) ==
    /\ ret' = IF ~db
              THEN [op |-> "getNote", threw |-> TRUE, path |-> path]
              ELSE [op |-> "getNote", threw |-> FALSE, path |-> path,
                    value |-> GetNoteValue(store, path)]
    /\ UNCHANGED << store, db, now >>

GetAllRecords ==
    /\ ret' = IF ~db
              THEN [op |-> "getAllRecords", threw |-> TRUE]
              ELSE [op |-> "getAllRecords", threw |-> FALSE, value |-> AllRecords(store)]
    /\ UNCHANGED << store, db, now >>

\* faulty variant of NeedsReindexValue: an equal modification time counts as newer
NeedsReindexOrEqual(st, path, currentMtime) ==
    LET record == GetNoteValue(st, path)
    IN  IF record = << >> THEN TRUE
        ELSE record[1].metadata.mtime <= currentMtime

\* needsReindex on an open database
NeedsReindexValue(st, path, currentMtime) ==
    LET record == GetNoteValue(st, path)
    IN  IF record = << >> THEN TRUE
        ELSE record[1].metadata.mtime < currentMtime

NeedsReindex(path, currentMtime) ==
    /\ ret' = IF ~db
              THEN [op |-> "needsReindex", threw |-> TRUE, path |-> path,
                    mtime |-> currentMtime]
              ELSE [op |-> "needsReindex", threw |-> FALSE, path |-> path,
                    mtime |-> currentMtime,
                    value |-> NeedsReindexValue(store, path, currentMtime)]
    /\ UNCHANGED << store, db, now >>

\* getStats: the number of records and the newest timestamp (0 for none)
GetStatsValue(st) ==
    [totalNotes |-> Cardinality(DOMAIN st),
     indexedNotes |-> Cardinality(DOMAIN st),
     lastUpdated |-> SetMax({0} \cup {st[id].timestamp : id \in DOMAIN st})]

GetStats ==
    /\ ret' = IF ~db
              THEN [op |-> "getStats", threw |-> TRUE]
              ELSE [op |-> "getStats", threw |-> FALSE, value |-> GetStatsValue(store)]
    /\ UNCHANGED << store, db, now >>

Clear ==
    /\ IF ~db
       THEN /\ ret' = [op |-> "clear", threw |-> TRUE]
            /\ UNCHANGED store
       ELSE /\ store' = << >>
            /\ ret' = [op |-> "clear", threw |-> FALSE]
    /\ UNCHANGED << db, now >>

\* time passes
MaxClock == 1

Tick ==
    /\ now < MaxClock
    /\ now' = now + 1
    /\ UNCHANGED << store, db, ret >>

\* the inputs of the store runs
StorePaths == {PathA, PathSci}
StoreVectors == { << 1, 0 >>, << 0, 1 >> }
MaxMtime == 2

StoreMetadata(path, mtime) ==
    [title |-> Basename(path), path |-> path, mtime |-> mtime, tags |-> << >>]

\* the store runs: a VectorIndex right after construction
InitStore ==
    /\ store = << >>
    /\ db = FALSE
    /\ now = 0
    /\ ret = NoCall
    /\ NoView

NextStore ==
    /\ \/ \E ok \in BOOLEAN : Initialize(ok)
       \/ Close
       \/ Tick
       \/ \E path \in StorePaths, vec \in StoreVectors, mtime \in 0..MaxMtime :
             AddNote(path, vec, [ver |-> 0, len |-> 60], StoreMetadata(path, mtime))
       \/ \E path \in StorePaths, vec \in StoreVectors : UpdateNote(path, vec)
       \/ \E path \in StorePaths : DeleteNote(path)
       \/ \E path \in StorePaths : GetNote(path)
       \/ GetAllRecords
       \/ \E path \in StorePaths, mtime \in 0..MaxMtime : NeedsReindex(path, mtime)
       \/ GetStats
       \/ Clear
       \/ \E q \in StoreVectors : FindNearest(q, MaxK, << >>)
    /\ UNCHANGED life
    /\ UNCHANGED srch

SpecStore == InitStore /\ [][NextStore]_vars

\* the ranking runs: any store over the sample paths and vectors, opened
InitRank ==
    /\ \E ids \in SUBSET RankPaths :
          \E vec \in [ids -> RankVectors] :
             store = [id \in ids |-> RankRecord(id, vec[id])]
    /\ db = TRUE
    /\ now = 1
    /\ ret = NoCall
    /\ NoView

\* one query per run: findNearest is a function of the store and its arguments
NextRank ==
    /\ ret = NoCall
    /\ \E q \in RankVectors, k \in 0..MaxK, t \in RankQueries : FindNearest(q, k, t)
    /\ UNCHANGED life
    /\ UNCHANGED srch

SpecRank == InitRank /\ [][NextRank]_vars

\* the ranking runs over notes of one title: west.md and west/west.md, with
\* vectors at a small angle to each other
PathWestNote == << "w", "e", "s", "t", ".", "m", "d" >>
PairPaths == {PathWest, PathWestNote, PathA}
PairVectors == { << 1, 0 >>, << 1, 1 >>, << 2, 1 >> }

InitPair ==
    /\ \E ids \in SUBSET PairPaths :
          \E vec \in [ids -> PairVectors] :
             store = [id \in ids |-> RankRecord(id, vec[id])]
    /\ db = TRUE
    /\ now = 1
    /\ ret = NoCall
    /\ NoView

NextPair ==
    /\ ret = NoCall
    /\ \E q \in PairVectors, k \in 0..MaxK, t \in RankQueries : FindNearest(q, k, t)
    /\ UNCHANGED life
    /\ UNCHANGED srch

SpecPair == InitPair /\ [][NextPair]_vars

\* ---------------------------------------------------------------------------
\* SemanticMonadView: the view, the vault events, indexNote and indexVault.
\* An await is the end of an action.  An IndexedDB request takes effect in the
\* order in which its transaction was created, so a store call acts in the step
\* that makes it and its result is delivered in the next step.
\* ---------------------------------------------------------------------------
MinContentLength == 50
SnippetLength == 500
FailureThreshold == 5
MinSuccesses == 10

\* the answer of the embedding server: a function of the text sent
EmbedOf(content, d) == [i \in 1..d |-> IF i = 1 THEN content.ver ELSE 1]

\* content.slice(0, 500)
Snippet(content) == [ver |-> content.ver, len |-> Min(content.len, SnippetLength)]

\* the metadata indexNote builds from the TFile as it is at that moment
NoteMetadata(path, file) ==
    [title |-> Basename(path), path |-> path, mtime |-> file.mtime, tags |-> << >>]

\* indexNote(file) up to its first await (cachedRead)
StartNote(path, second) ==
    [pc |-> "read", path |-> path, dirty |-> FALSE, second |-> second]

\* faulty variant of TooManyFailures: trips at the threshold
TooManyFailuresAtThreshold(failed, indexed) ==
    failed >= FailureThreshold /\ indexed < MinSuccesses

\* failed > 5 && indexed < 10
TooManyFailures(failed, indexed) ==
    failed > FailureThreshold /\ indexed < MinSuccesses

\* faulty variant of AbortedStore: the catch block clears the index
AbortedStoreCleared(st) == << >>

\* the store after the catch and finally blocks of indexVault: untouched
AbortedStore(st) == st

\* faulty variant of AfterNote: the first failure is rethrown to the outer catch
AfterNoteRethrow(r, threw, dbOpen) ==
    LET r1 == [r EXCEPT !.indexed = IF threw THEN @ ELSE @ + 1,
                        !.failed = IF threw THEN @ + 1 ELSE @,
                        !.history = Append(@, IF threw THEN "fail" ELSE "ok")]
    IN  IF threw
        THEN [r1 EXCEPT !.pc = "ended", !.outcome = "failed"]
        ELSE IF r.i < Len(r.files)
        THEN [r1 EXCEPT !.i = r.i + 1, !.attempts[r.files[r.i + 1]] = @ + 1]
        ELSE IF dbOpen
        THEN [r1 EXCEPT !.pc = "status"]
        ELSE [r1 EXCEPT !.pc = "ended", !.outcome = "failed"]

\* indexVault after its indexNote call returned or threw: count, trip the
\* breaker, go on with the next file, or leave the loops and call
\* updateIndexStatus (whose getStats throws at once on a closed database).
\* The batches of 5 are slices walked in order: one index over files.
AfterNote(r, threw, dbOpen) ==
    LET indexed == IF threw THEN r.indexed ELSE r.indexed + 1
        failed == IF threw THEN r.failed + 1 ELSE r.failed
        r1 == [r EXCEPT !.indexed = indexed, !.failed = failed,
                        !.history = Append(@, IF threw THEN "fail" ELSE "ok")]
    IN  IF threw /\ TooManyFailures(failed, indexed)
        THEN [r1 EXCEPT !.pc = "ended", !.outcome = "tooManyFailures"]
        ELSE IF r.i < Len(r.files)
        THEN [r1 EXCEPT !.i = r.i + 1, !.attempts[r.files[r.i + 1]] = @ + 1]
        ELSE IF dbOpen
        THEN [r1 EXCEPT !.pc = "status"]
        ELSE [r1 EXCEPT !.pc = "ended", !.outcome = "failed"]

\* activation p goes on to its next await
Continue(p, rec) ==
    /\ note' = [note EXCEPT ![p] = rec]
    /\ UNCHANGED << run, isIndexing, fresh >>

\* activation p ends, st being the store it leaves: a modify handler logs a
\* throw, indexVault goes on as AfterNote says
Finish(p, threw, st) ==
    LET path == note[p].path
        fresh1 == IF ~threw /\ ~note[p].dirty THEN fresh \cup {path} ELSE fresh
    IN  /\ fresh' = fresh1
        /\ IF p = 0
           THEN LET r == AfterNote(run, threw, db)
                IN  /\ run' = r
                    /\ isIndexing' = (r.pc # "ended")
                    /\ store' = IF r.outcome = "tooManyFailures" THEN AbortedStore(st) ELSE st
                    /\ note' = [note EXCEPT ![0] =
                                   IF r.pc = "loop"
                                   THEN StartNote(r.files[r.i], r.files[r.i] \in fresh1)
                                   ELSE Idle]
           ELSE /\ note' = [note EXCEPT ![p] = Idle]
                /\ store' = st
                /\ UNCHANGED << run, isIndexing >>

\* cachedRead resolves (or rejects, which only a deleted file may do); then
\* the length check and the call of needsReindex with file.stat.mtime
NoteRead(p, readable) ==
    /\ note[p].pc = "read"
    /\ LET path == note[p].path
           file == files[path]
       IN  /\ file.exists => readable
           /\ IF ~readable THEN Finish(p, TRUE, store)
              ELSE IF file.content.len < MinContentLength THEN Finish(p, FALSE, store)
              ELSE IF ~db THEN Finish(p, TRUE, store)
              ELSE /\ Continue(p, [pc |-> "check", path |-> path, dirty |-> note[p].dirty,
                                   second |-> note[p].second, content |-> file.content,
                                   nr |-> NeedsReindexValue(store, path, file.mtime)])
                   /\ UNCHANGED store
    /\ UNCHANGED << db, now, ret, files, isHealthy, view, pending, handled >>

\* needsReindex resolves; embed is called and looks at isHealthy
NoteCheck(p) ==
    /\ note[p].pc = "check"
    /\ IF ~note[p].nr THEN Finish(p, FALSE, store)
       ELSE /\ Continue(p, [note[p] EXCEPT !.pc = IF isHealthy THEN "embed" ELSE "health"])
            /\ UNCHANGED store
    /\ UNCHANGED << db, now, ret, files, isHealthy, view, pending, handled >>

\* faulty variant of NoteHealth: the text is sent whatever the check says
NoteHealthSendsAnyway(p, ok) ==
    /\ note[p].pc = "health"
    /\ isHealthy' = ok
    /\ Continue(p, [note[p] EXCEPT !.pc = "embed"]) /\ UNCHANGED store
    /\ UNCHANGED << db, now, ret, files, view, pending, handled >>

\* the health check of embed -> initialize resolves or rejects
NoteHealth(p, ok) ==
    /\ note[p].pc = "health"
    /\ isHealthy' = ok
    /\ IF ok THEN Continue(p, [note[p] EXCEPT !.pc = "embed"]) /\ UNCHANGED store
       ELSE Finish(p, TRUE, store)
    /\ UNCHANGED << db, now, ret, files, view, pending, handled >>

\* faulty variant of NoteEmbed: a failed call yields a vector of zeros
NoteEmbedZeroVector(p, ok) ==
    /\ note[p].pc = "embed"
    /\ isHealthy' = IF ok THEN isHealthy ELSE FALSE
    /\ IF ~db THEN Finish(p, TRUE, store)
       ELSE /\ Continue(p, [pc |-> "stats", path |-> note[p].path, dirty |-> note[p].dirty,
                            second |-> note[p].second, content |-> note[p].content,
                            embedding |-> IF ok THEN EmbedOf(note[p].content, dims)
                                          ELSE [i \in 1..dims |-> 0]])
            /\ UNCHANGED store
    /\ UNCHANGED << db, now, ret, files, view, pending, handled >>

\* the POST /embed resolves or fails; on success getStats is called
NoteEmbed(p, ok) ==
    /\ note[p].pc = "embed"
    /\ isHealthy' = IF ok THEN isHealthy ELSE FALSE
    /\ IF ~ok \/ ~db THEN Finish(p, TRUE, store)
       ELSE /\ Continue(p, [pc |-> "stats", path |-> note[p].path, dirty |-> note[p].dirty,
                            second |-> note[p].second, content |-> note[p].content,
                            embedding |-> EmbedOf(note[p].content, dims)])
            /\ UNCHANGED store
    /\ UNCHANGED << db, now, ret, files, view, pending, handled >>

\* getStats resolves; the metadata is built and addNote puts the record
NoteStats(p) ==
    /\ note[p].pc = "stats"
    /\ IF ~db THEN Finish(p, TRUE, store)
       ELSE LET path == note[p].path
                record == NewRecord(path, note[p].embedding, Snippet(note[p].content),
                                    NoteMetadata(path, files[path]), now)
            IN  /\ store' = Put(store, record)
                /\ note' = [note EXCEPT ![p] = [@ EXCEPT !.pc = "put"]]
                /\ run' = IF p = 0 THEN [run EXCEPT !.written = Put(@, record)] ELSE run
                /\ UNCHANGED << isIndexing, fresh >>
    /\ UNCHANGED << db, now, ret, files, isHealthy, view, pending, handled >>

\* addNote resolves: indexNote returns
NotePut(p) ==
    /\ note[p].pc = "put"
    /\ Finish(p, FALSE, store)
    /\ UNCHANGED << db, now, ret, files, isHealthy, view, pending, handled >>

\* every running activation for path saw the document change under it
Touched(path) ==
    [p \in Procs |-> IF note[p].pc # "idle" /\ note[p].path = path
                     THEN [note[p] EXCEPT !.dirty = TRUE] ELSE note[p]]

MaxModifies == 1
ContentLengths == {49, 50}

\* the user edits a document; an open view gets 'modify' and calls indexNote
VaultModify(path, len) ==
    /\ files[path].exists
    /\ now <= MaxModifies
    /\ now' = now + 1
    /\ files' = [files EXCEPT ![path] = [content |-> [ver |-> now + 1, len |-> len],
                                         mtime |-> now + 1, exists |-> TRUE]]
    /\ fresh' = fresh \ {path}
    /\ IF view = "open"
       THEN \E h \in 1..NumHandlers :
               /\ note[h].pc = "idle"
               /\ \A g \in 1..(h - 1) : note[g].pc # "idle"
               /\ note' = [Touched(path) EXCEPT ![h] = StartNote(path, FALSE)]
       ELSE note' = Touched(path)
    /\ UNCHANGED << store, db, ret, isHealthy, run, isIndexing, view, pending, handled >>

\* the user deletes a document
VaultDelete(path) ==
    /\ files[path].exists
    /\ files' = [files EXCEPT ![path].exists = FALSE]
    /\ pending' = pending \cup {path}
    /\ fresh' = fresh \ {path}
    /\ note' = Touched(path)
    /\ UNCHANGED << store, db, now, ret, isHealthy, run, isIndexing, view, handled >>

\* the 'delete' listener: await this.vectorIndex.deleteNote(file.path)
OnDelete(path) ==
    /\ view = "open"
    /\ path \in pending
    /\ pending' = pending \ {path}
    /\ handled' = handled \cup {path}
    /\ store' = IF db THEN Delete(store, path) ELSE store
    /\ UNCHANGED << db, now, ret, files, isHealthy, note, run, isIndexing, view, fresh >>

\* onOpen: initializeServices (a failure is caught), registerVaultListeners
OnOpen(ok) ==
    /\ view = "new"
    /\ view' = "open"
    /\ db' = ok
    /\ UNCHANGED << store, now, ret, files, isHealthy, note, run, isIndexing, pending,
                    handled, fresh >>

\* onClose: this.vectorIndex.close(); the listeners go with the view
OnClose ==
    /\ view = "open"
    /\ view' = "closed"
    /\ db' = FALSE
    /\ UNCHANGED << store, now, ret, files, isHealthy, note, run, isIndexing, pending,
                    handled, fresh >>

\* indexVault up to its first await (embeddingService.initialize)
IndexVaultStart ==
    /\ view = "open"
    /\ ~isIndexing
    /\ isIndexing' = TRUE
    /\ run' = [pc |-> "connect", outcome |-> "none", files |-> << >>, i |-> 0,
               indexed |-> 0, failed |-> 0, history |-> << >>,
               attempts |-> [path \in DOMAIN files |-> 0], written |-> << >>]
    /\ UNCHANGED << store, db, now, ret, files, isHealthy, note, view, pending, handled,
                    fresh >>

\* the health check resolves: getMarkdownFiles and the first indexNote, or
\* rejects: 'Embedding server unavailable' goes to the outer catch
IndexVaultConnect(ok) ==
    /\ run.pc = "connect"
    /\ isHealthy' = ok
    /\ IF ~ok
       THEN /\ run' = [run EXCEPT !.pc = "ended", !.outcome = "unavailable"]
            /\ isIndexing' = FALSE
            /\ UNCHANGED note
       ELSE LET fs == KeysAscending({path \in DOMAIN files : files[path].exists})
            IN  IF fs = << >>
                THEN /\ run' = IF db THEN [run EXCEPT !.pc = "status"]
                               ELSE [run EXCEPT !.pc = "ended", !.outcome = "failed"]
                     /\ isIndexing' = db
                     /\ UNCHANGED note
                ELSE /\ run' = [run EXCEPT !.pc = "loop", !.files = fs, !.i = 1,
                                           !.attempts[fs[1]] = 1]
                     /\ note' = [note EXCEPT ![0] = StartNote(fs[1], fs[1] \in fresh)]
                     /\ UNCHANGED isIndexing
    /\ UNCHANGED << store, db, now, ret, files, view, pending, handled, fresh >>

\* faulty variant of IndexVaultFinish: the flag is left as it is
IndexVaultFinishFlagKept ==
    /\ run.pc = "status"
    /\ run' = [run EXCEPT !.pc = "ended", !.outcome = "completed"]
    /\ UNCHANGED << store, db, now, ret, files, isHealthy, note, view, pending, handled,
                    fresh, isIndexing >>

\* updateIndexStatus resolves; finally
IndexVaultFinish ==
    /\ run.pc = "status"
    /\ run' = [run EXCEPT !.pc = "ended", !.outcome = "completed"]
    /\ isIndexing' = FALSE
    /\ UNCHANGED << store, db, now, ret, files, isHealthy, note, view, pending, handled,
                    fresh >>

\* the steps of the indexNote activations
NoteStep ==
    \E p \in Procs :
        \/ \E readable \in BOOLEAN : NoteRead(p, readable)
        \/ NoteCheck(p)
        \/ \E ok \in BOOLEAN : NoteHealth(p, ok)
        \/ \E ok \in BOOLEAN : NoteEmbed(p, ok)
        \/ NoteStats(p)
        \/ NotePut(p)

\* the paths of the vault
DocPaths == {PathA, PathSci}

InitialFile == [content |-> [ver |-> 1, len |-> 60], mtime |-> 1, exists |-> TRUE]

\* a view right after construction over a vault of two documents
Init ==
    /\ store = << >>
    /\ db = FALSE
    /\ now = 1
    /\ ret = NoCall
    /\ files = [path \in DocPaths |-> InitialFile]
    /\ isHealthy = FALSE
    /\ note = [p \in Procs |-> Idle]
    /\ run = NoRun
    /\ isIndexing = FALSE
    /\ view = "new"
    /\ pending = {}
    /\ handled = {}
    /\ fresh = {}
    /\ Unsearched

\* one indexVault per behaviour
Next ==
    /\ \/ \E ok \in BOOLEAN : OnOpen(ok)
       \/ OnClose
       \/ \E path \in DocPaths, len \in ContentLengths : VaultModify(path, len)
       \/ \E path \in DocPaths : VaultDelete(path)
       \/ \E path \in DocPaths : OnDelete(path)
       \/ (run = NoRun /\ IndexVaultStart)
       \/ \E ok \in BOOLEAN : IndexVaultConnect(ok)
       \/ IndexVaultFinish
       \/ NoteStep
    /\ UNCHANGED srch

Spec == Init /\ [][Next]_vars

\* the embedding server is restarted with another model; the client is not
\* told: isHealthy and the dimensions it read at its last health check stay
ServerSwitch(d) ==
    /\ d # dims
    /\ dims' = d
    /\ UNCHANGED << store, db, now, ret, life, llmService, search, currentMonad, server,
                    earlier, layout >>

\* the view and its vault beside a server whose model may change
NextModel ==
    \/ Next
    \/ \E d \in ModelSizes : ServerSwitch(d)

SpecModel == Init /\ [][NextModel]_vars

\* ---------------------------------------------------------------------------
\* The concept generators (llmService.ts): the parsing of the provider's answer
\* ---------------------------------------------------------------------------
MinTermLength == 2
MaxTermLength == 30

\* term.replace(/^[-\d.)\s]+/, ''): of the model's alphabet, the class holds
\* white space, hyphen and full stop
RECURSIVE StripLeading(_)
StripLeading(term) ==
    IF term # << >> /\ Head(term) \in WhiteSpace \cup {"-", "."}
    THEN StripLeading(Tail(term))
    ELSE term

\* the alternatives of /^(example|here|are|the|terms|for)/
StopPrefixes ==
    { << "e", "x", "a", "m", "p", "l", "e" >>, << "h", "e", "r", "e" >>,
      << "a", "r", "e" >>, << "t", "h", "e" >>, << "t", "e", "r", "m", "s" >>,
      << "f", "o", "r" >> }

\* term.match(/^[a-z-]+$/)
LettersAndHyphens(term) ==
    /\ term # << >>
    /\ \A i \in 1..Len(term) :
          term[i] = "-" \/ (CharCode(term[i]) >= CharCode("a") /\ CharCode(term[i]) <= CharCode("z"))

\* term.length > 2 && term.length < 30
TermLengthOk(term) == Len(term) > MinTermLength /\ Len(term) < MaxTermLength

\* the last two filters of OllamaProvider
OllamaKeeps(term) ==
    /\ ~ \E prefix \in StopPrefixes : StartsWith(term, prefix)
    /\ LettersAndHyphens(term)

\* OllamaProvider.generateConcepts, from the text of the answer on
OllamaTerms(response, count) ==
    LET pieces == Split(Trim(response), {",", "\n"})
        lowered == [i \in 1..Len(pieces) |-> ToLowerCase(Trim(pieces[i]))]
        stripped == [i \in 1..Len(lowered) |-> StripLeading(lowered[i])]
    IN  Slice0(SelectSeq(SelectSeq(stripped, TermLengthOk), OllamaKeeps), count)

\* ClaudeProvider.generateConcepts and OpenAIProvider.generateConcepts, from
\* the text of the answer on
ClaudeTerms(response, count) ==
    LET pieces == Split(response, {","})
        lowered == [i \in 1..Len(pieces) |-> ToLowerCase(Trim(pieces[i]))]
    IN  Slice0(SelectSeq(lowered, TermLengthOk), count)

\* LLMService.generateConcepts: the configured provider's
GenerateConcepts(provider, response, count) ==
    IF provider = "ollama" THEN OllamaTerms(response, count)
    ELSE ClaudeTerms(response, count)

\* ---------------------------------------------------------------------------
\* SemanticMonadView.handleSemanticSearch and extractSemanticConcepts.
\* An await is the end of an action.
\* ---------------------------------------------------------------------------
NoteLimit == 50
ConceptCount == 30
TopConcepts == 25
MaxConcepts == 18
MinQueryWord == 3

\* the answer of the embedding server to a text: a function of the text and
\* of the server's model
EmbedText(text, d) ==
    [i \in 1..d |-> IF text = << >> THEN 0
                    ELSE IF i = 1 THEN (CharCode(text[1]) % 4) - 1
                    ELSE IF i = 2 THEN CharCode(text[Len(text)]) % 3
                    ELSE 1]

\* new Set(queryNormalized.split(/\s+/).filter(w => w.length > 3))
QueryWords(queryNormalized) ==
    {w \in Range(SplitRuns(queryNormalized, WhiteSpace)) : Len(w) > MinQueryWord}

\* llmConcepts.filter(term => !queryWords.has(term.toLowerCase()))
FilterConcepts(llmConcepts, queryWords) ==
    LET Keeps(term) == ToLowerCase(term) \notin queryWords
    IN  SelectSeq(llmConcepts, Keeps)

\* faulty variant of InsertBySimilarity: the comparator is a.similarity - b.similarity
RECURSIVE InsertAscending(_, _)
InsertAscending(sorted, x) ==
    IF sorted = << >> THEN << x >>
    ELSE IF Head(sorted).similarity <= x.similarity
         THEN << Head(sorted) >> \o InsertAscending(Tail(sorted), x)
         ELSE << x >> \o sorted

\* one insertion of the stable sort by (a, b) => b.similarity - a.similarity
RECURSIVE InsertBySimilarity(_, _)
InsertBySimilarity(sorted, x) ==
    IF sorted = << >> THEN << x >>
    ELSE IF Head(sorted).similarity >= x.similarity
         THEN << Head(sorted) >> \o InsertBySimilarity(Tail(sorted), x)
         ELSE << x >> \o sorted

RECURSIVE SortBySimilarity(_)
SortBySimilarity(ranked) ==
    IF ranked = << >> THEN << >>
    ELSE InsertBySimilarity(SortBySimilarity(SubSeq(ranked, 1, Len(ranked) - 1)),
                            ranked[Len(ranked)])

\* filteredConcepts.map(...): each term with its vector and its similarity to
\* the query (the cosines are known not to throw)
ScoreConcepts(filtered, embeddings, queryEmbedding) ==
    [i \in 1..Len(filtered) |->
        [term |-> filtered[i], embedding |-> embeddings[i],
         similarity |-> CosineSimilarity(queryEmbedding, embeddings[i]).value]]

\* rankedConcepts.sort(...); rankedConcepts.slice(0, 25)
TopRanked(ranked) == Slice0(SortBySimilarity(ranked), TopConcepts)

\* the records whose title or path includes the term
RelatedNotes(allRecords, term) ==
    {i \in 1..Len(allRecords) :
        \/ Includes(ToLowerCase(allRecords[i].metadata.title), ToLowerCase(term))
        \/ Includes(ToLowerCase(allRecords[i].id), ToLowerCase(term))}

\* topConcepts.map(...).slice(0, 18)
FinalConcepts(top, allRecords) ==
    Slice0([i \in 1..Len(top) |->
              [term |-> top[i].term, embedding |-> top[i].embedding,
               similarity |-> top[i].similarity,
               hasNotes |-> RelatedNotes(allRecords, top[i].term) # {},
               noteCount |-> Cardinality(RelatedNotes(allRecords, top[i].term))]],
           MaxConcepts)

\* projectToVisualization: the center and one point per concept, labelled
\* with its term (the coordinates are random)
Projection(concepts) ==
    << << "query" >> >> \o [i \in 1..Len(concepts) |-> concepts[i].term]

\* the search ends with a monad: currentMonad is set and the lists are drawn
Ready(s, concepts) ==
    [s EXCEPT !.pc = "ended", !.outcome = "ready", !.concepts = concepts]

\* the catch block of handleSemanticSearch
Failed(s) == [s EXCEPT !.pc = "ended", !.outcome = "failed"]

\* faulty variant of ConceptsFailed: the error goes on to handleSemanticSearch
ConceptsFailedRethrown(s, why) == Failed([s EXCEPT !.llm = why])

\* extractSemanticConcepts returns [] (no llmService, a caught error, or
\* nothing left after the filter) and the search goes on to its end
ConceptsFailed(s, why) == Ready([s EXCEPT !.llm = why], << >>)

\* faulty variant of NoNotes: the empty result is not looked at
NoNotesIgnored(nearestNotes) == FALSE

\* nearestNotes.length === 0
NoNotes(nearestNotes) == Len(nearestNotes) = 0

\* the monad handleSemanticSearch builds
Monad(s) ==
    [id |-> now, query |-> s.query, queryEmbedding |-> s.queryEmbedding,
     notes |-> s.notes, concepts |-> s.concepts,
     projection2D |-> Projection(s.concepts)]

\* the search goes on as s; one that ends ready sets currentMonad
Searching(s) ==
    /\ search' = s
    /\ currentMonad' = IF s.outcome = "ready" THEN << Monad(s) >> ELSE currentMonad

\* what a search leaves alone
rest == << store, db, now, ret, files, note, run, isIndexing, view, pending, handled,
           fresh, dims, llmService, server, earlier, layout >>

\* handleSemanticSearch up to its first await: an empty query is refused, a
\* service not ready is initialized first, then embed(query) posts the query
SearchStart(text) ==
    /\ view = "open"
    /\ search = NoSearch
    /\ LET query == Trim(text)
       IN  IF query = << >>
           THEN Searching([search EXCEPT !.pc = "ended", !.outcome = "emptyQuery"])
           ELSE Searching([search EXCEPT !.query = query,
                                         !.pc = IF isHealthy THEN "embed" ELSE "health"])
    /\ UNCHANGED << isHealthy, rest >>

\* the health check resolves, or rejects (at the latest when its timer aborts it)
SearchHealth(ok) ==
    /\ search.pc = "health"
    /\ isHealthy' = ok
    /\ IF ok THEN Searching([search EXCEPT !.pc = "embed"])
       ELSE Searching(Failed(search))
    /\ UNCHANGED rest

\* the POST /embed of the query resolves, or fails (at the latest when its
\* timer aborts it); on success findNearest is called
SearchEmbed(ok) ==
    /\ search.pc = "embed"
    /\ isHealthy' = IF ok THEN isHealthy ELSE FALSE
    /\ IF ~ok \/ ~db THEN Searching(Failed(search))
       ELSE \E queryEmbedding \in {EmbedText(search.query, dims)} :
                Searching([search EXCEPT
                    !.pc = "rank",
                    !.queryEmbedding = queryEmbedding,
                    !.found = FindNearestValue(store, queryEmbedding, NoteLimit,
                                               ToLowerCase(search.query))])
    /\ UNCHANGED rest

\* findNearest resolved or rejected: no notes end the search, else
\* extractSemanticConcepts is called and asks the provider, if there is one
AfterRank(s, provider) ==
    IF s.found.threw THEN Failed(s)
    ELSE LET nearestNotes == s.found.value
             queryNormalized == ToLowerCase(s.query)
             s1 == [s EXCEPT !.notes = nearestNotes]
             s2 == [s1 EXCEPT !.queryWords = QueryWords(queryNormalized),
                              !.prompt = Join(SetOrder(SelectWords(
                                             SplitRuns(queryNormalized, WhiteSpace),
                                             MinQueryWord), {}), << " " >>)]
         IN  IF NoNotes(nearestNotes)
             THEN [s1 EXCEPT !.pc = "ended", !.outcome = "noIndexedDocuments"]
             ELSE IF provider = "none" THEN ConceptsFailed(s2, "unconfigured")
             ELSE [s2 EXCEPT !.pc = "generate"]

SearchRank ==
    /\ search.pc = "rank"
    /\ \E s \in {AfterRank(search, llmService)} : Searching(s)
    /\ UNCHANGED << isHealthy, rest >>

\* the provider answers (no timer bounds this call): an error, or a text that
\* is parsed and filtered; the terms left are sent to embedBatch
SearchGenerate(answer) ==
    /\ search.pc = "generate"
    /\ IF answer.threw THEN Searching(ConceptsFailed(search, "threw"))
       ELSE LET llmConcepts == GenerateConcepts(llmService, answer.text, ConceptCount)
                filtered == FilterConcepts(llmConcepts, search.queryWords)
                s1 == [search EXCEPT !.llmConcepts = llmConcepts, !.filtered = filtered]
            IN  IF filtered = << >>
                THEN Searching(ConceptsFailed(s1, "empty"))
                ELSE Searching([s1 EXCEPT !.pc = "batch", !.llm = "terms"])
    /\ UNCHANGED << isHealthy, rest >>

\* the embed calls of embedBatch (at most 30 terms: one batch) all resolve, or
\* one fails; on success the terms are scored, sorted and cut, and
\* getAllRecords is called
SearchBatch(ok) ==
    /\ search.pc = "batch"
    /\ isHealthy' = IF ok THEN isHealthy ELSE FALSE
    /\ IF ~ok THEN Searching(ConceptsFailed(search, "embedFailed"))
       ELSE LET filtered == search.filtered
                embeddings == [i \in 1..Len(filtered) |-> EmbedText(filtered[i], dims)]
                ranked == ScoreConcepts(filtered, embeddings, search.queryEmbedding)
            IN  IF \E i \in 1..Len(filtered) :
                       CosineSimilarity(search.queryEmbedding, embeddings[i]).threw
                THEN Searching(ConceptsFailed(search, "mismatch"))
                ELSE IF ~db THEN Searching(ConceptsFailed(search, "storage"))
                ELSE Searching([search EXCEPT !.pc = "records", !.ranked = ranked,
                                              !.top = TopRanked(ranked)])
    /\ UNCHANGED rest

\* getAllRecords resolves: the concepts are marked, cut to 18 and laid out
SearchRecords ==
    /\ search.pc = "records"
    /\ \E concepts \in {FinalConcepts(search.top, AllRecords(store))} :
          Searching(Ready(search, concepts))
    /\ UNCHANGED << isHealthy, rest >>

\* the inputs of the search runs
PathArt == << "A", "r", "t", "/", "l", "o", "g", "i", "c", ".", "m", "d" >>

SearchStores ==
    { << >>,
      [id \in {PathA} |-> RankRecord(id, << 1, 0 >>)],
      [id \in {PathArt, PathA} |-> RankRecord(id, IF id = PathA THEN << 1, 0 >> ELSE << 1, 1 >>)],
      [id \in {PathArt, PathA} |-> RankRecord(id, IF id = PathA THEN << 1 >> ELSE << 1, 1 >>)] }

QueryArt == << " ", "A", "r", "t", " ", "h", "i", "s", "t", "o", "r", "y", " " >>
SearchQueries == { QueryArt, << " ", " " >>, << "w", "e", "s", "t" >> }

\* the terms of a long answer: "bah", "cao", ...
NumTerms == 26
ManyTerms ==
    [i \in 1..NumTerms |->
        << Chars[34 + (i % 26)], Chars[34 + (i \div 26)], Chars[34 + ((i * 7) % 26)] >>]

\* the texts a provider may answer with: "", "History", "art, History, logic",
\* "logic, Logic, ethics", four lines "- logic", "the terms", "ab", "A b",
\* and the long answer
Answers ==
    { << >>,
      << "H", "i", "s", "t", "o", "r", "y" >>,
      << "a", "r", "t", ",", " ", "H", "i", "s", "t", "o", "r", "y", ",", " ",
         "l", "o", "g", "i", "c" >>,
      << "l", "o", "g", "i", "c", ",", " ", "L", "o", "g", "i", "c", ",", " ",
         "e", "t", "h", "i", "c", "s" >>,
      << "-", " ", "l", "o", "g", "i", "c", "\n", "t", "h", "e", " ", "t", "e", "r", "m", "s",
         "\n", "a", "b", "\n", "A", " ", "b" >>,
      Join(ManyTerms, << "," >>) }

Providers == {"none", "ollama", "claude"}

\* the search runs: an open view over an indexed vault, nothing else going on
InitSearch ==
    /\ store \in SearchStores
    /\ db \in BOOLEAN
    /\ now = 1
    /\ ret = NoCall
    /\ files = << >>
    /\ isHealthy = FALSE
    /\ note = [p \in Procs |-> Idle]
    /\ run = NoRun
    /\ isIndexing = FALSE
    /\ view = "open"
    /\ pending = {}
    /\ handled = {}
    /\ fresh = {}
    /\ dims = ModelDims
    /\ llmService \in Providers
    /\ ~db => llmService = "none"
    /\ search = NoSearch
    /\ currentMonad = << >>
    /\ server = TRUE
    /\ earlier = NoEarlier
    /\ layout = NoLayout

\* the steps of a search whose call is bounded by a timer or is local
Bounded ==
    \/ \E ok \in BOOLEAN : SearchHealth(ok)
    \/ \E ok \in BOOLEAN : SearchEmbed(ok)
    \/ SearchRank
    \/ \E ok \in BOOLEAN : SearchBatch(ok)
    \/ SearchRecords

NextSearch ==
    \/ \E text \in SearchQueries : SearchStart(text)
    \/ Bounded
    \/ SearchGenerate([threw |-> TRUE])
    \/ \E text \in Answers : SearchGenerate([threw |-> FALSE, text |-> text])
    \/ \E d \in ModelSizes : ServerSwitch(d)

SpecSearch == InitSearch /\ [][NextSearch]_vars

\* every call with a timer ends: it resolves or its timer aborts it
SpecSearchFair == InitSearch /\ [][NextSearch]_vars /\ WF_vars(Bounded)

\* the search button or Enter while a search is in flight: nothing guards
\* handleSemanticSearch, a second activation starts beside the first
SearchAgain(text) ==
    /\ view = "open"
    /\ search.pc \notin {"idle", "ended"}
    /\ earlier = NoEarlier
    /\ earlier' = [act |-> search, first |-> TRUE]
    /\ LET query == Trim(text)
       IN  IF query = << >>
           THEN Searching([NoSearch EXCEPT !.pc = "ended", !.outcome = "emptyQuery"])
           ELSE Searching([NoSearch EXCEPT !.query = query,
                                          !.pc = IF isHealthy THEN "embed" ELSE "health"])
    /\ UNCHANGED << store, db, now, ret, life, dims, llmService, server, layout >>

\* the call the other activation awaits is the next to resolve: search holds
\* the activation whose continuation runs next
Resume ==
    /\ earlier.act.pc \notin {"idle", "ended"}
    /\ search' = earlier.act
    /\ earlier' = [act |-> search, first |-> ~earlier.first]
    /\ UNCHANGED << store, db, now, ret, life, dims, llmService, currentMonad, server,
                    layout >>

\* two searches over an indexed vault, the second issued while the first is
\* in flight
InitOverlap ==
    /\ InitSearch
    /\ db
    /\ DOMAIN store = {PathArt, PathA}

NextOverlap ==
    \/ SearchStart(QueryArt)
    \/ SearchAgain(<< "w", "e", "s", "t" >>)
    \/ Resume
    \/ Bounded
    \/ SearchGenerate([threw |-> TRUE])
    \/ \E text \in Answers : SearchGenerate([threw |-> FALSE, text |-> text])

SpecOverlap == InitOverlap /\ [][NextOverlap]_vars

\* ---------------------------------------------------------------------------
\* The force layout: projectToVisualization and applyForces. Lengths and
\* velocities are in units of 0.0001, divisions truncate as Quot does
\* ---------------------------------------------------------------------------

MinDistance == 2000
TargetRadius == 7000
RepulsionStrength == 5000000
Epsilon == 100
CenterAttraction == 100
Damping == 85

Abs(a) == IF a < 0 THEN -a ELSE a

\* a / b for b > 0, truncated towards zero
Quot(a, b) == IF a >= 0 THEN a \div b ELSE -((-a) \div b)

RECURSIVE Newton(_, _)
Newton(n, x) ==
    LET y == (x + n \div x) \div 2 IN IF y >= x THEN x ELSE Newton(n, y)

\* Math.sqrt(dx * dx + dy * dy), rounded down; coordinates too large to be
\* squared in 31 bits are taken in units sixteen times as large
Hypot(dx, dy) ==
    LET big == Max(Abs(dx), Abs(dy)) > 30000
        u == IF big THEN Quot(dx, 16) ELSE dx
        v == IF big THEN Quot(dy, 16) ELSE dy
        n == u * u + v * v
    IN  IF n = 0 THEN 0 ELSE (IF big THEN 16 ELSE 1) * Newton(n, 46340)

NoForce == [fx |-> 0, fy |-> 0, nan |-> FALSE]

\* the repulsion of conceptB on conceptA: none unless dist < minDistance (which
\* needs |dx| and |dy| below it, and is false for a NaN); at dist 0 the
\* direction dx / dist is 0 / 0, a NaN
Repulsion(a, b) ==
    LET dx == a.x - b.x
        dy == a.y - b.y
    IN  IF a.nan \/ b.nan \/ Abs(dx) >= MinDistance \/ Abs(dy) >= MinDistance THEN NoForce
        ELSE LET dist == Hypot(dx, dy)
                 force == Quot(RepulsionStrength, dist + Epsilon)
             IN  IF dist >= MinDistance THEN NoForce
                 ELSE IF dist = 0 THEN [fx |-> 0, fy |-> 0, nan |-> TRUE]
                 ELSE [fx |-> Quot(dx * force, dist), fy |-> Quot(dy * force, dist),
                       nan |-> FALSE]

\* the attraction of conceptA to the circle of targetRadius; dist > 0 is
\* false at the origin and for a NaN
Attraction(a) ==
    IF a.nan THEN NoForce
    ELSE LET dist == Hypot(a.x, a.y)
             centerForce == Quot(dist - TargetRadius, CenterAttraction)
         IN  IF dist > 0
             THEN [fx |-> -Quot(a.x * centerForce, dist),
                   fy |-> -Quot(a.y * centerForce, dist), nan |-> FALSE]
             ELSE NoForce

\* one pass of the outer loop of applyForces: the forces on concept i from
\* the positions as they are now, then the velocity kept under its term and
\* the position of the concept are updated in place
MoveConcept(l, i) ==
    LET a == l.concepts[i]
        n == Len(l.concepts)
        pushes == [j \in 1..n |-> IF j = i THEN NoForce ELSE Repulsion(a, l.concepts[j])]
        pull == Attraction(a)
        fx == SumTo([j \in 1..n |-> pushes[j].fx], n) + pull.fx
        fy == SumTo([j \in 1..n |-> pushes[j].fy], n) + pull.fy
        velA == l.velocities[a.term]
        vel == IF velA.nan \/ \E j \in 1..n : pushes[j].nan
               THEN [velA EXCEPT !.nan = TRUE]
               ELSE [vx |-> Quot((velA.vx + fx) * Damping, 100),
                     vy |-> Quot((velA.vy + fy) * Damping, 100), nan |-> FALSE]
    IN  [l EXCEPT !.velocities[a.term] = vel,
                  !.concepts[i] = [a EXCEPT !.x = a.x + vel.vx, !.y = a.y + vel.vy,
                                            !.nan = a.nan \/ vel.nan]]

RECURSIVE ApplyForcesFrom(_, _)
ApplyForcesFrom(l, i) ==
    IF i > Len(l.concepts) THEN l ELSE ApplyForcesFrom(MoveConcept(l, i), i + 1)

\* the sum of the squared velocities of the concepts
Energy(l) ==
    SumTo([i \in 1..Len(l.concepts) |->
              LET v == l.velocities[l.concepts[i].term] IN v.vx * v.vx + v.vy * v.vy],
          Len(l.concepts))

\* projectToVisualization: the center, a point per concept (others, computed
\* from Math.random()) and a velocity of zero under each term
ProjectToVisualization(concepts, others) ==
    [tick |-> 0,
     center |-> [x |-> 0, y |-> 0],
     concepts |-> [i \in 1..Len(concepts) |->
                     [term |-> concepts[i].term, x |-> others[i][1], y |-> others[i][2],
                      nan |-> FALSE]],
     velocities |-> [term \in {concepts[i].term : i \in 1..Len(concepts)} |->
                       [vx |-> 0, vy |-> 0, nan |-> FALSE]],
     early |-> 0]

\* one animation frame: applyForces; the energy at tick 10 is kept in early
ApplyForces ==
    /\ currentMonad # << >>
    /\ layout.tick < 1000
    /\ \E l \in {ApplyForcesFrom(layout, 1)} :
          layout' = [l EXCEPT !.tick = @ + 1,
                              !.early = IF layout.tick + 1 = 10 THEN Energy(l) ELSE @]
    /\ UNCHANGED << store, db, now, ret, life, dims, llmService, search, currentMonad,
                    server, earlier >>

\* the concepts of three searches and the points drawn for them: twelve
\* concepts, three concepts two of which have one term, and two concepts at
\* one point (an input of applyForces that no search draws)
LayoutInputs ==
    { [terms |-> SubSeq(ManyTerms, 1, 12),
       others |-> << << 7848, -290 >>, << 5207, 3770 >>, << 2913, 6664 >>, << 1082, 7832 >>,
                     << -2878, 5953 >>, << -6132, 3729 >>, << -7327, 829 >>,
                     << -5704, -4100 >>, << -3057, -6574 >>, << 619, -6332 >>,
                     << 3212, -6151 >>, << 6362, -4761 >> >>],
      [terms |-> << << "e", "t", "h", "i", "c", "s" >>, << "l", "o", "g", "i", "c" >>,
                    << "l", "o", "g", "i", "c" >> >>,
       others |-> << << 7649, -842 >>, << -3691, 5363 >>, << -3458, -5970 >> >>],
      [terms |-> << << "l", "o", "g", "i", "c" >>, << "e", "t", "h", "i", "c", "s" >> >>,
       others |-> << << 7000, 0 >>, << 7000, 0 >> >>] }

\* the view right after a search ended ready with the concepts of an input
InitLayout ==
    /\ store = << >>
    /\ db = TRUE
    /\ now = 1
    /\ ret = NoCall
    /\ files = << >>
    /\ isHealthy = TRUE
    /\ note = [p \in Procs |-> Idle]
    /\ run = NoRun
    /\ isIndexing = FALSE
    /\ view = "open"
    /\ pending = {}
    /\ handled = {}
    /\ fresh = {}
    /\ dims = ModelDims
    /\ llmService = "ollama"
    /\ server = TRUE
    /\ earlier = NoEarlier
    /\ \E input \in LayoutInputs :
          /\ search = Ready([NoSearch EXCEPT !.query = << "w", "e", "s", "t" >>],
                            [i \in 1..Len(input.terms) |->
                                [term |-> input.terms[i],
                                 embedding |-> EmbedText(input.terms[i], ModelDims),
                                 similarity |-> 0, hasNotes |-> FALSE, noteCount |-> 0]])
          /\ currentMonad = << Monad(search) >>
          /\ layout = ProjectToVisualization(search.concepts, input.others)

NextLayout == ApplyForces

SpecLayout == InitLayout /\ [][NextLayout]_vars

\* the batch runs: one indexVault over a vault of MaxFiles documents, the
\* view open and nothing else going on
MaxFiles == 16
ShortDoc == 7
IndexedDoc == 8
StaleDoc == 9

\* the path of the n-th document: "da", "db", ...
BatchPath(n) == << "d", Chars[33 + n] >>

BatchFile(n) ==
    [content |-> [ver |-> 1, len |-> IF n = ShortDoc THEN 10 ELSE 60],
     mtime |-> 1, exists |-> TRUE]

\* the record of an earlier version of the document StaleDoc
StaleRecord ==
    LET old == [content |-> [ver |-> 0, len |-> 60], mtime |-> 0, exists |-> TRUE]
    IN  NewRecord(BatchPath(StaleDoc), EmbedOf(old.content, ModelDims),
                  Snippet(old.content), NoteMetadata(BatchPath(StaleDoc), old), 0)

InitBatch ==
    /\ files = [path \in {BatchPath(n) : n \in 1..MaxFiles} |->
                  BatchFile(CHOOSE n \in 1..MaxFiles : BatchPath(n) = path)]
    /\ store = [path \in {BatchPath(IndexedDoc), BatchPath(StaleDoc)} |->
                  IF path = BatchPath(IndexedDoc)
                  THEN NewRecord(path, EmbedOf(BatchFile(IndexedDoc).content, ModelDims),
                                 Snippet(BatchFile(IndexedDoc).content),
                                 NoteMetadata(path, BatchFile(IndexedDoc)), 0)
                  ELSE StaleRecord]
    /\ db = TRUE
    /\ now = 1
    /\ ret = NoCall
    /\ isHealthy = FALSE
    /\ note = [p \in Procs |-> Idle]
    /\ run = NoRun
    /\ isIndexing = FALSE
    /\ view = "open"
    /\ pending = {}
    /\ handled = {}
    /\ fresh = {}
    /\ Unsearched

NextBatch ==
    /\ \/ (run = NoRun /\ IndexVaultStart)
       \/ \E ok \in BOOLEAN : IndexVaultConnect(ok)
       \/ IndexVaultFinish
       \/ NoteStep
    /\ UNCHANGED srch

SpecBatch == InitBatch /\ [][NextBatch]_vars

\* the user asks for indexVault: while a run is in progress the request is
\* refused with a notice, else a run starts
IndexVaultRequest ==
    IF isIndexing
    THEN /\ ret' = [op |-> "indexVault", threw |-> FALSE, value |-> "alreadyInProgress"]
         /\ UNCHANGED << store, db, now, life >>
    ELSE IndexVaultStart

\* the repeated runs: indexVault is asked for at any time over a vault of
\* RunFiles documents, nothing indexed yet
RunFiles == 6

InitRuns ==
    /\ files = [path \in {BatchPath(n) : n \in 1..RunFiles} |-> BatchFile(1)]
    /\ store = << >>
    /\ db = TRUE
    /\ now = 1
    /\ ret = NoCall
    /\ isHealthy = FALSE
    /\ note = [p \in Procs |-> Idle]
    /\ run = NoRun
    /\ isIndexing = FALSE
    /\ view = "open"
    /\ pending = {}
    /\ handled = {}
    /\ fresh = {}
    /\ Unsearched

NextRuns ==
    /\ \/ IndexVaultRequest
       \/ \E ok \in BOOLEAN : IndexVaultConnect(ok)
       \/ IndexVaultFinish
       \/ NoteStep
    /\ UNCHANGED srch

SpecRuns == InitRuns /\ [][NextRuns]_vars

\* the embedding server stops answering, or answers again; the client is not told
ServerFlip ==
    /\ server' = ~server
    /\ UNCHANGED << store, db, now, ret, life, dims, llmService, search, currentMonad,
                    earlier, layout >>

\* the callers of embed: the indexNote activations and the search
Callers == 0..(NumHandlers + 1)

\* the pending request of caller c (a health check or a POST /embed) resolves
\* as the server is at that moment
Answer(c) ==
    \/ /\ c \in Procs
       /\ NoteHealth(c, server) \/ NoteEmbed(c, server)
       /\ UNCHANGED srch
    \/ /\ c \notin Procs
       /\ SearchHealth(server) \/ SearchEmbed(server)

\* the health check of indexVault resolves likewise
Connect == IndexVaultConnect(server) /\ UNCHANGED srch

\* the client beside a server that comes and goes: an open view over an
\* unindexed vault of two documents, no provider configured
InitClient ==
    /\ store = << >>
    /\ db = TRUE
    /\ now = 1
    /\ ret = NoCall
    /\ files = [path \in DocPaths |-> InitialFile]
    /\ isHealthy = FALSE
    /\ note = [p \in Procs |-> Idle]
    /\ run = NoRun
    /\ isIndexing = FALSE
    /\ view = "open"
    /\ pending = {}
    /\ handled = {}
    /\ fresh = {}
    /\ Unsearched

NextClient ==
    \/ ServerFlip
    \/ \E c \in Callers : Answer(c)
    \/ Connect
    \/ /\ \/ IndexVaultRequest
          \/ IndexVaultFinish
          \/ \E p \in Procs : \/ NoteRead(p, TRUE)
                               \/ NoteCheck(p)
                               \/ NoteStats(p)
                               \/ NotePut(p)
       /\ UNCHANGED srch
    \/ \E text \in {<< "w", "e", "s", "t" >>} : SearchStart(text)
    \/ SearchRank

\* every request has a timer (5 s for /health, 30 s for /embed): it resolves
\* or is aborted
SpecClient ==
    /\ InitClient
    /\ [][NextClient]_vars
    /\ \A c \in Callers : WF_vars(Answer(c))
    /\ WF_vars(Connect)

\* ---------------------------------------------------------------------------
\* Properties of the ranker (SpecRank)
\* ---------------------------------------------------------------------------
Ranked == ret.op = "findNearest" /\ ~ret.threw

\* C1: every ScoredNote returned by findNearest has a score between 0 and 1,
\* whatever the query vector, the query text and the stored records.
C1_ScoreInUnitInterval ==
    Ranked => \A i \in 1..Len(ret.value) :
                 ret.value[i].score >= 0 /\ ret.value[i].score <= Scale

\* C2: findNearest returns at most k notes, in non-increasing order of score,
\* and of two returned notes with the same score the one with the
\* lexicographically smaller id comes first.
C2_RankOrdered ==
    Ranked =>
        /\ Len(ret.value) <= ret.k
        /\ \A i, j \in 1..Len(ret.value) :
              i < j => \/ ret.value[i].score > ret.value[j].score
                       \/ /\ ret.value[i].score = ret.value[j].score
                          /\ StrLess(ret.value[i].path, ret.value[j].path)

\* a query over three records that returns two of them, tied, above the third
C2_Witness ==
    /\ Ranked
    /\ Cardinality(DOMAIN store) = 3
    /\ ret.k = 2
    /\ Len(ret.value) = 2
    /\ ret.value[1].score = ret.value[2].score
    /\ \E id \in DOMAIN store :
          FinalScore(CosineSimilarity(ret.query, store[id].embedding).value,
                     Boost(store[id], ret.text)) < ret.value[2].score

\* some stored vector has another length than the query vector
DimensionsDiffer ==
    \E id \in DOMAIN store : Len(store[id].embedding) # Len(ret.query)

\* C10: a search whose query vector differs in length from the vector of a
\* stored record fails and returns no ranked notes.
C10_DimensionMismatchFails ==
    (ret.op = "findNearest" /\ DimensionsDiffer) => (ret.threw /\ ret.value = << >>)

\* a failed search over a store that holds both a matching and a mismatching vector
C10_Witness ==
    /\ ret.op = "findNearest"
    /\ ret.threw
    /\ DimensionsDiffer
    /\ \E id \in DOMAIN store : Len(store[id].embedding) = Len(ret.query)

\* ---------------------------------------------------------------------------
\* Properties of the store (SpecStore)
\* ---------------------------------------------------------------------------

\* C4: needsReindex returns true exactly when there is no record for the id or
\* the stored modification time is strictly less than the current one.
C4_NeedsReindexExact ==
    (ret.op = "needsReindex" /\ ~ret.threw) =>
        (ret.value <=> (\/ ret.path \notin DOMAIN store
                        \/ store[ret.path].metadata.mtime < ret.mtime))

\* needsReindex answered false for a record of exactly the current time
C4_Witness ==
    /\ ret.op = "needsReindex"
    /\ ~ret.threw
    /\ ret.path \in DOMAIN store
    /\ store[ret.path].metadata.mtime = ret.mtime
    /\ ~ret.value

\* C9: a store operation invoked while the database is not open fails and
\* changes no stored record.
C9_ClosedStoreFails ==
    [][~db => (store' = store /\ (ret' # ret => ret'.threw))]_vars

\* addNote was refused on a closed store that holds records
C9_Witness ==
    /\ ~db
    /\ ret.op = "addNote"
    /\ ret.threw
    /\ ret.path \notin DOMAIN store
    /\ store # << >>

\* ---------------------------------------------------------------------------
\* Properties of indexVault (SpecBatch)
\* ---------------------------------------------------------------------------

\* the failures and the successes among the first j indexNote calls of the run
Fails(h, j) == Cardinality({k \in 1..j : h[k] = "fail"})
Oks(h, j) == Cardinality({k \in 1..j : h[k] = "ok"})

\* at some failure more than 5 calls had failed and fewer than 10 had succeeded
Breach(h) ==
    \E j \in 1..Len(h) :
        h[j] = "fail" /\ Fails(h, j) > FailureThreshold /\ Oks(h, j) < MinSuccesses

\* C5: the run aborts with 'Too many indexing failures' exactly when at some
\* failure the failures so far exceed 5 and the successes so far are below 10;
\* six failures before any success abort it with indexed = 0; a run that has
\* reached 10 successes is never aborted.
C5_BreakerExact ==
    /\ (run.outcome = "tooManyFailures") <=> Breach(run.history)
    /\ (Len(run.history) >= 6 /\ \A k \in 1..6 : run.history[k] = "fail") =>
           (run.outcome = "tooManyFailures" /\ run.indexed = 0)
    /\ run.indexed >= MinSuccesses => run.outcome # "tooManyFailures"

\* the first six documents failed and the run was aborted
C5_Witness ==
    /\ run.outcome = "tooManyFailures"
    /\ run.indexed = 0
    /\ run.failed = 6
    /\ run.i = 6

\* the run has left its document loop
RunOverDocuments == run.pc = "ended" /\ run.files # << >>

\* C6: a run over n documents of which f <= 5 fail is not aborted: every
\* document is attempted exactly once and the run counts failed = f and
\* indexed = n - f.
C6_FewFailuresTolerated ==
    (RunOverDocuments /\ Fails(run.history, Len(run.history)) <= 5) =>
        /\ run.outcome = "completed"
        /\ \A path \in DOMAIN files : run.attempts[path] = 1
        /\ run.failed = Fails(run.history, Len(run.history))
        /\ run.indexed = Cardinality(DOMAIN files) - run.failed

\* a completed run with five failed documents
C6_Witness ==
    /\ RunOverDocuments
    /\ run.outcome = "completed"
    /\ run.failed = 5
    /\ run.indexed = MaxFiles - 5

\* C7: when the run is aborted by the breaker, every record it wrote is still
\* in the store as written, and no document behind the one that tripped the
\* breaker is attempted.
C7_AbortKeepsProgress ==
    run.outcome = "tooManyFailures" =>
        /\ \A path \in DOMAIN run.written :
              path \in DOMAIN store /\ store[path] = run.written[path]
        /\ \A j \in (run.i + 1)..Len(run.files) : run.attempts[run.files[j]] = 0
        /\ note[0] = Idle

\* an aborted run that had written records and left documents unattempted
C7_Witness ==
    /\ run.outcome = "tooManyFailures"
    /\ Cardinality(DOMAIN run.written) >= 2
    /\ run.i < Len(run.files)

\* ---------------------------------------------------------------------------
\* Properties of incremental indexing (Spec)
\* ---------------------------------------------------------------------------

\* C3: an indexNote call for a document whose previous indexNote succeeded and
\* which has not changed since makes no embedding call and writes nothing: it
\* ends at the length check or at needsReindex = false.
C3_UnchangedIsSkipped ==
    \A p \in Procs :
        (note[p].pc # "idle" /\ note[p].second /\ ~note[p].dirty) =>
            \/ note[p].pc = "read"
            \/ note[p].pc = "check" /\ ~note[p].nr

\* a second call found the record of the first one up to date
C3_Witness ==
    \E p \in Procs :
        /\ note[p].pc = "check"
        /\ note[p].second
        /\ ~note[p].dirty
        /\ ~note[p].nr
        /\ note[p].path \in DOMAIN store
        /\ store[note[p].path].metadata.mtime = files[note[p].path].mtime

\* some indexNote activation, running or still to be started by the run in
\* progress, is for path
InFlight(path) ==
    \/ \E p \in Procs : note[p].pc # "idle" /\ note[p].path = path
    \/ run.pc = "loop" /\ \E j \in (run.i + 1)..Len(run.files) : run.files[j] = path

\* C8: once the delete notification of a document has been handled and no
\* indexing of it is in flight any more, the store has no record for it.
C8_DeletedHasNoRecord ==
    \A path \in handled : ~InFlight(path) => path \notin DOMAIN store

\* ---------------------------------------------------------------------------
\* Properties of the stored vectors (SpecModel)
\* ---------------------------------------------------------------------------

\* C11: in every reachable state all stored vectors have the same length,
\* whatever indexNote and indexVault calls were made and also when the
\* embedding server changes its model between two calls.
C11_OneDimensionality ==
    \A a, b \in DOMAIN store : Len(store[a].embedding) = Len(store[b].embedding)

\* ---------------------------------------------------------------------------
\* Properties of the ranking of notes of one title (SpecPair)
\* ---------------------------------------------------------------------------

\* C19: when the query vector is the stored vector of exactly one record,
\* findNearest (k at least 1) returns that record first, whatever else is
\* stored and whatever the query text.
C19_IdenticalRanksFirst ==
    (Ranked /\ ret.k >= 1) =>
        \A id \in DOMAIN store :
            (/\ store[id].embedding = ret.query
             /\ \A o \in DOMAIN store \ {id} : store[o].embedding # ret.query)
            => (ret.value # << >> /\ ret.value[1].path = id)

\* the raw cosine similarities of u and of v to q are equal (exactly: the
\* signs of the dot products and their squares over the norms)
SameCosine(q, u, v) ==
    LET du == Dot(q, u)
        dv == Dot(q, v)
        nu == Dot(u, u)
        nv == Dot(v, v)
        ZeroU == Dot(q, q) = 0 \/ nu = 0 \/ du = 0
        ZeroV == Dot(q, q) = 0 \/ nv = 0 \/ dv = 0
    IN  IF ZeroU \/ ZeroV THEN ZeroU /\ ZeroV
        ELSE (du > 0) = (dv > 0) /\ du * du * nv = dv * dv * nu

\* a folder of the record's path (a part before the file name) matches a
\* word of the query, as the path-segment boost matches them
FolderMatches(record, queryText) ==
    LET pathParts == Split(ToLowerCase(record.id), {"/"})
        queryWords == SelectWords(SplitRuns(ToLowerCase(queryText), WhiteSpace), 3)
    IN  \E i \in 1..(Len(pathParts) - 1) : \E j \in 1..Len(queryWords) :
            PartMatches(pathParts[i], queryWords[j])

\* the place of the note of path id in the notes returned, 0 if it is not
Place(id) ==
    IF \E i \in 1..Len(ret.value) : ret.value[i].path = id
    THEN CHOOSE i \in 1..Len(ret.value) : ret.value[i].path = id
    ELSE 0

\* C20: of two records with equal raw cosine similarity and equal titles, of
\* which only one has a folder matching a query word, the one without the
\* folder is never returned before (or without) the one with it.
C20_FolderMatchNotBelow ==
    Ranked =>
        \A a, b \in DOMAIN store :
            (/\ a # b
             /\ SameCosine(ret.query, store[a].embedding, store[b].embedding)
             /\ store[a].metadata.title = store[b].metadata.title
             /\ FolderMatches(store[a], ret.text)
             /\ ~FolderMatches(store[b], ret.text))
            => (Place(b) # 0 => (Place(a) # 0 /\ Place(a) < Place(b)))

\* C17: when the embedding call of indexNote fails (the health check it starts
\* with, or the POST /embed), that step ends the call: the store is left as it
\* was, nothing is written later, and indexVault counts the note as failed.
C17_FailedEmbedWritesNothing ==
    [][(/\ note[0].pc \in {"health", "embed"}
        /\ note'[0] # note[0]
        /\ ~isHealthy')
       => /\ store' = store
          /\ run'.failed = run.failed + 1
          /\ run'.history = Append(run.history, "fail")
          /\ note'[0].pc \in {"idle", "read"}
          /\ note'[0].pc = "read" => note'[0].path # note[0].path]_vars

\* the embedding of the changed document StaleDoc failed and the store still
\* holds the record of its earlier version
C17_Witness ==
    /\ \E j \in 1..Len(run.history) :
          run.history[j] = "fail" /\ run.files[j] = BatchPath(StaleDoc)
    /\ BatchPath(StaleDoc) \in DOMAIN store
    /\ store[BatchPath(StaleDoc)] = StaleRecord

\* ---------------------------------------------------------------------------
\* Properties of the search (SpecSearch, SpecSearchFair)
\* ---------------------------------------------------------------------------

\* the whitespace-separated words of the query as typed
WordsOfQuery == Range(SplitRuns(search.query, WhiteSpace))

\* C12: no concept of a search result has a term that is case-insensitively
\* equal to a whitespace-separated word of the query.
C12_NoQueryWordConcept ==
    search.outcome = "ready" =>
        \A i \in 1..Len(search.concepts) : \A w \in WordsOfQuery :
            ToLowerCase(search.concepts[i].term) # ToLowerCase(w)

\* the candidates of seq more similar to the query than m
Above(seq, m) == Cardinality({i \in 1..Len(seq) : seq[i].similarity > m})

\* C13: the concepts returned are at most 18, in non-increasing order of
\* similarity to the query, each one is a candidate left by the filter, and
\* no candidate left out is more similar to the query than one returned.
C13_ConceptsRanked ==
    search.outcome = "ready" =>
        LET c == search.concepts
            r == search.ranked
        IN  /\ Len(c) <= MaxConcepts
            /\ \A i, j \in 1..Len(c) : i < j => c[i].similarity >= c[j].similarity
            /\ \A i \in 1..Len(c) :
                  \E k \in 1..Len(r) :
                      r[k].term = c[i].term /\ r[k].similarity = c[i].similarity
            /\ c # << >> => Above(r, c[Len(c)].similarity) = Above(c, c[Len(c)].similarity)

\* 18 concepts of differing similarity were returned out of more than 25
\* candidates that the provider had not listed in that order
C13_Witness ==
    /\ search.outcome = "ready"
    /\ Len(search.concepts) = MaxConcepts
    /\ Len(search.ranked) > TopConcepts
    /\ search.concepts[1].similarity > search.concepts[MaxConcepts].similarity
    /\ \E i \in 1..(Len(search.ranked) - 1) :
          search.ranked[i].similarity < search.ranked[i + 1].similarity
    /\ \E i \in 1..Len(search.ranked) :
          search.ranked[i].similarity < search.concepts[MaxConcepts].similarity

\* C14: the concepts returned have non-empty terms, no two of them equal
\* case-insensitively, whatever terms the provider lists.
C14_DistinctTerms ==
    search.outcome = "ready" =>
        /\ \A i \in 1..Len(search.concepts) : search.concepts[i].term # << >>
        /\ \A i, j \in 1..Len(search.concepts) :
              i < j => ToLowerCase(search.concepts[i].term) # ToLowerCase(search.concepts[j].term)

\* C15: when no provider is configured, the provider throws, or no term of
\* its answer is usable, the search still ends ready, with its ranked notes
\* and no concepts.
C15_NoConceptsIsReady ==
    (search.pc = "ended" /\ search.llm \in {"unconfigured", "threw", "empty"}) =>
        /\ search.outcome = "ready"
        /\ search.concepts = << >>
        /\ search.notes = search.found.value
        /\ search.notes # << >>
        /\ currentMonad # << >>
        /\ currentMonad[1].notes = search.notes
        /\ currentMonad[1].concepts = << >>
        /\ currentMonad[1].projection2D = << << "query" >> >>

\* the provider threw and the search ended ready with two notes
C15_Witness ==
    /\ search.pc = "ended"
    /\ search.llm = "threw"
    /\ llmService = "ollama"
    /\ search.outcome = "ready"
    /\ Len(search.notes) = 2

\* C16: every search that was started ends (ready or failed), also when the
\* embedding server or the provider never answers.
C16_SearchEnds == (search.pc # "idle") ~> (search.pc = "ended")

\* C18: a search over a store without records ends as 'no indexed notes': the
\* provider is not asked, nothing is laid out and no monad is made.
C18_EmptyStoreNoResult ==
    store = << >> =>
        /\ search.pc \notin {"generate", "batch", "records"}
        /\ search.llm = "none"
        /\ search.prompt = << >>
        /\ search.concepts = << >>
        /\ currentMonad = << >>
        /\ (search.pc = "ended" /\ search.queryEmbedding # << >>) =>
               search.outcome = "noIndexedDocuments"

\* a view with a provider searched an empty store
C18_Witness ==
    /\ store = << >>
    /\ llmService # "none"
    /\ search.outcome = "noIndexedDocuments"
    /\ search.queryEmbedding # << >>
\* ---------------------------------------------------------------------------
\* Properties of the report of indexVault (SpecBatch)
\* ---------------------------------------------------------------------------

\* C24: when indexVault has ended, its count 'indexed' is the number of
\* documents that were embedded and written during the run; documents shorter
\* than 50 characters or not in need of reindexing are not in it.
C24_IndexedCountsWritten ==
    run.pc = "ended" => run.indexed = Cardinality(DOMAIN run.written)

\* ---------------------------------------------------------------------------
\* Properties of the boosts (SpecRank)
\* ---------------------------------------------------------------------------

\* the words of the query text longer than 3 characters, lower-cased
Tokens(queryText) == SelectWords(SplitRuns(ToLowerCase(queryText), WhiteSpace), 3)

\* the parts of the record's path between slashes, lower-cased
Segments(record) == Split(ToLowerCase(record.id), {"/"})

\* what Boost adds beyond the boosts of the single words
FlatBoost(record, queryText) ==
    LET pathLower == ToLowerCase(record.id)
        titleLower == ToLowerCase(record.metadata.title)
        queryWords == SelectWords(SplitRuns(ToLowerCase(queryText), WhiteSpace), 2)
    IN  Boost(record, queryText)
        - SumTo([i \in 1..Len(queryWords) |-> WordBoost(queryWords[i], pathLower, titleLower)],
                Len(queryWords))

\* C27: in every ranking with a query text, the flat multi-word boost is added
\* to a record once or not at all, and it is added exactly when one segment
\* of the record's path contains two distinct query words longer than 3
\* characters.
C27_MultiBoostDistinctWords ==
    (Ranked /\ ret.text # << >>) =>
        \A id \in DOMAIN store :
            LET parts == Segments(store[id])
                TwoDistinct ==
                    \E i \in 1..Len(parts) :
                        Cardinality({w \in Range(Tokens(ret.text)) : Includes(parts[i], w)}) >= 2
            IN  FlatBoost(store[id], ret.text) = IF TwoDistinct THEN MultiBoost ELSE 0

\* C28 as stated: a returned record none of whose path segments and whose
\* title contain a query word longer than 3 characters has the score
\* min(1.0, cosine).
C28_BoostOnlyByContainedToken ==
    (Ranked /\ ret.text # << >>) =>
        \A n \in 1..Len(ret.value) :
            LET record == store[ret.value[n].path]
                parts == Segments(record)
                Contained(w) ==
                    \/ \E i \in 1..Len(parts) : Includes(parts[i], w)
                    \/ Includes(ToLowerCase(record.metadata.title), w)
            IN  (\A w \in Range(Tokens(ret.text)) : ~Contained(w)) =>
                    ret.value[n].score =
                        Min(Scale, CosineSimilarity(ret.query, record.embedding).value)

\* C28 amended: a returned record has the score min(1.0, cosine) when no
\* query word longer than 3 characters is contained in a path segment or in
\* the title, and none begins with a word (of 3 characters or more, between
\* white space, hyphens and underscores) of a path segment.
C28_BoostOnlyByMatchedToken ==
    (Ranked /\ ret.text # << >>) =>
        \A n \in 1..Len(ret.value) :
            LET record == store[ret.value[n].path]
                parts == Segments(record)
                Abbreviates(part, w) ==
                    LET folderWords == SplitRuns(part, WordSeparators)
                    IN  \E j \in 1..Len(folderWords) :
                            Len(folderWords[j]) >= 3 /\ StartsWith(w, folderWords[j])
                Matched(w) ==
                    \/ \E i \in 1..Len(parts) : Includes(parts[i], w) \/ Abbreviates(parts[i], w)
                    \/ Includes(ToLowerCase(record.metadata.title), w)
            IN  (\A w \in Range(Tokens(ret.text)) : ~Matched(w)) =>
                    ret.value[n].score =
                        Min(Scale, CosineSimilarity(ret.query, record.embedding).value)

\* a.md, with a positive cosine, was ranked for the text "science  west" next
\* to a record that the text boosts
C28_Witness ==
    /\ Ranked
    /\ ret.text = QueryScience
    /\ \E n, m \in 1..Len(ret.value) :
          /\ ret.value[n].path = PathA
          /\ ret.value[n].score > 0
          /\ ret.value[n].score = CosineSimilarity(ret.query, store[PathA].embedding).value
          /\ Boost(store[ret.value[m].path], ret.text) > 0

\* ---------------------------------------------------------------------------
\* Properties of repeated runs of indexVault (SpecRuns)
\* ---------------------------------------------------------------------------

\* C29: a request for indexVault made while a run is in progress changes
\* nothing of the store, the run and the notes; the flag isIndexing is set
\* exactly while a run is between its start and its end, whichever way the
\* run ends; and whenever no run is in progress a request can start one.
C29_OneRunAtATime ==
    /\ [][(isIndexing /\ ret' # ret) =>
             (store' = store /\ run' = run /\ note' = note /\ isIndexing')]_vars
    /\ [](isIndexing <=> run.pc \in {"connect", "loop", "status"})
    /\ [](run.pc \in {"idle", "ended"} => ENABLED IndexVaultStart)
    /\ [](note[0].pc # "idle" => run.pc = "loop")

\* a run is going through the vault over the records an earlier run wrote,
\* and a request was refused while a run was in progress
C29_Witness ==
    /\ run.pc = "loop"
    /\ isIndexing
    /\ run.written = << >>
    /\ store # << >>
    /\ ret.op = "indexVault"

\* ---------------------------------------------------------------------------
\* Properties of indexing beside edits (Spec)
\* ---------------------------------------------------------------------------

\* C23: once no indexing of a document is in flight any more, a record that
\* carries the modification time of the document's latest content carries the
\* embedding of that content.
C23_NewestTimeNewestVector ==
    \A path \in DOMAIN store :
        (/\ files[path].exists
         /\ ~InFlight(path)
         /\ store[path].metadata.mtime = files[path].mtime)
        => store[path].embedding = EmbedOf(files[path].content, dims)

\* ---------------------------------------------------------------------------
\* The embedding client beside a server that comes and goes
\* ---------------------------------------------------------------------------

\* where caller c is: "health" while its health check is pending, "embed"
\* while its POST is pending
Stage(c) == IF c \in Procs THEN note[c].pc ELSE search.pc

\* where caller c goes on when embed returned the vector
Embedded(c) == IF c \in Procs THEN "stats" ELSE "rank"

\* C30: the embedding client has no stuck state. A failed embed call leaves
\* the service marked unhealthy; an embed call made while it is unhealthy
\* runs the health check first and sends the text only if the server answered
\* it; every request the server answers takes the call forward, the POST to
\* its vector; and every call ends
C30_ClientRecovers ==
    /\ [][\A c \in Callers :
            (Stage(c) \in {"health", "embed"}
             /\ Stage(c)' \notin {"health", "embed", Embedded(c)}) => ~isHealthy']_vars
    /\ [][\A c \in Callers :
            /\ (Stage(c) \notin {"health", "embed"} /\ Stage(c)' = "embed") => isHealthy
            /\ (Stage(c) \notin {"health", "embed"} /\ Stage(c)' = "health") => ~isHealthy
            /\ (Stage(c) = "health" /\ Stage(c)' = "embed") => (server /\ isHealthy')]_vars
    /\ [][\A c \in Callers :
            /\ (server /\ Stage(c) = "health" /\ Stage(c)' # "health")
               => Stage(c)' = "embed"
            /\ (server /\ Stage(c) = "embed" /\ Stage(c)' # "embed")
               => Stage(c)' = Embedded(c)]_vars
    /\ \A c \in Callers :
           (Stage(c) \in {"health", "embed"}) ~> (Stage(c) \notin {"health", "embed"})

\* indexVault lost a document to a failed embed call, and a later call of it
\* ran the health check, sent its text and got the vector
C30_Witness ==
    /\ run.pc = "loop"
    /\ run.failed >= 1
    /\ note[0].pc = "stats"
    /\ isHealthy
    /\ search.pc = "ended"
    /\ search.outcome = "failed"

\* ---------------------------------------------------------------------------
\* Two searches in flight
\* ---------------------------------------------------------------------------

\* the search issued first and the one issued while it was in flight
SearchA == IF earlier.first THEN earlier.act ELSE search
SearchB == IF earlier.first THEN search ELSE earlier.act

\* C22: when search B was issued while search A was in flight and both have
\* completed, the current result set (currentMonad: notes, concepts and
\* layout points) is the one B built
C22_LatestSearchWins ==
    (/\ earlier # NoEarlier
     /\ SearchA.pc = "ended"
     /\ SearchB.pc = "ended"
     /\ SearchB.outcome = "ready")
    => (/\ currentMonad # << >>
        /\ currentMonad[1].query = SearchB.query
        /\ currentMonad[1].notes = SearchB.notes
        /\ currentMonad[1].concepts = SearchB.concepts)

\* ---------------------------------------------------------------------------
\* The force layout
\* ---------------------------------------------------------------------------

\* every position and every velocity is a finite number
Finite(l) ==
    /\ \A i \in 1..Len(l.concepts) : ~l.concepts[i].nan
    /\ \A term \in DOMAIN l.velocities : ~l.velocities[term].nan

\* C21: from a finite configuration at rest, the sum of the squared
\* velocities at tick 1000 is no greater than it was at tick 10.
C21_EnergyNotAboveTick10 ==
    (layout.tick = 1000 /\ Finite(layout)) => Energy(layout) <= layout.early

C26_OwnPointPerConcept ==
    /\ \A i, j \in 1..Len(layout.concepts) :
           i # j => layout.concepts[i].term # layout.concepts[j].term
    /\ Cardinality(DOMAIN layout.velocities) = Len(layout.concepts)
    /\ layout.center = [x |-> 0, y |-> 0]
====
